---- MODULE Spec2Model ----
(***************************************************************************)
(* caderidflux: InfluxQuery (chunked retrieval into an accumulating table) *)
(* and CustomFluxQuery (Flux text assembly), src/caderidflux/query.py,     *)
(* with the store written through InfluxWriter, src/caderidflux/upload.py. *)
(*                                                                         *)
(* A datetime is [year, month, day, second, microsecond], second being the *)
(* second of the day (hour*3600 + minute*60 + second); datetimes are naive.*)
(* A timedelta is [days, seconds, microseconds], normalised as Python      *)
(* normalises it.  A table is a sequence of rows <<timestamp, value>> in   *)
(* the order the DataFrame holds them.                                     *)
(***************************************************************************)
EXTENDS Integers, Sequences, FiniteSets, TLC

VARIABLES
    store,          \* the database: the value at each of StoreTimes, 0 = no point there
    measurements,   \* self._measurements
    aliased,        \* the caller holds a reference to the object self._measurements names
    args,           \* arguments of the last data_query call (NoArgs before the first)
    calls,          \* executor invocations of the last data_query call, in order
    outcome,        \* how the last data_query call ended: "none", "ok", "raised"
    before,         \* self._measurements when the last data_query call began
    log,            \* ranges of the data_query calls that returned normally since the
                    \* instance was fresh or cleared, while nothing else touched it
    pure,           \* nothing but normally returning data_query calls since then
    ncalls          \* data_query calls made so far

vars == <<store, measurements, aliased, args, calls, outcome, before, log, pure, ncalls>>

-----------------------------------------------------------------------------
(* Bounds of the model *)

MaxCalls == 2       \* data_query calls in one behaviour
MaxChunks == 5      \* sub-windows in one data_query call
MaxFetches == 3     \* data_query calls in one behaviour of calls, writes and clears

-----------------------------------------------------------------------------
(* datetime / timedelta / relativedelta arithmetic *)

SecondsPerDay == 86400
SecondsPerHour == 3600

DT(y, m, d, s, us) ==
    [year |-> y, month |-> m, day |-> d, second |-> s, microsecond |-> us]

IsLeap(y) == (y % 4 = 0 /\ y % 100 # 0) \/ y % 400 = 0

DaysInMonth(y, m) ==
    IF m = 2 THEN (IF IsLeap(y) THEN 29 ELSE 28)
    ELSE IF m \in {4, 6, 9, 11} THEN 30 ELSE 31

DaysBeforeYear(y) ==
    (y - 1) * 365 + ((y - 1) \div 4) - ((y - 1) \div 100) + ((y - 1) \div 400)

DaysBeforeMonth(y, m) ==
    <<0, 31, 59, 90, 120, 151, 181, 212, 243, 273, 304, 334>>[m]
        + (IF m > 2 /\ IsLeap(y) THEN 1 ELSE 0)

ToOrdinal(d) == DaysBeforeYear(d.year) + DaysBeforeMonth(d.year, d.month) + d.day

YearOfOrdinal(n) ==
    CHOOSE y \in 2020..2030 : DaysBeforeYear(y) < n /\ n <= DaysBeforeYear(y + 1)

MonthOfOrdinal(y, n) ==
    CHOOSE m \in 1..12 :
        /\ DaysBeforeYear(y) + DaysBeforeMonth(y, m) < n
        /\ n <= DaysBeforeYear(y) + DaysBeforeMonth(y, m) + DaysInMonth(y, m)

FromOrdinal(n, s, us) ==
    LET y == YearOfOrdinal(n)
        m == MonthOfOrdinal(y, n)
    IN  DT(y, m, n - DaysBeforeYear(y) - DaysBeforeMonth(y, m), s, us)

\* a < b on datetimes
Before(a, b) ==
    LET x == <<a.year, a.month, a.day, a.second, a.microsecond>>
        y == <<b.year, b.month, b.day, b.second, b.microsecond>>
    IN  \E i \in 1..5 : x[i] < y[i] /\ \A j \in 1..(i - 1) : x[j] = y[j]

NotAfter(a, b) == a = b \/ Before(a, b)

TD(d, s, us) == [days |-> d, seconds |-> s, microseconds |-> us]

\* timedelta normalisation: 0 <= microseconds < 10^6, 0 <= seconds < 86400
Normalise(d, s, us) ==
    LET s1 == s + (us \div 1000000)
    IN  TD(d + (s1 \div SecondsPerDay), s1 % SecondsPerDay, us % 1000000)

\* a - b
Minus(a, b) ==
    Normalise(ToOrdinal(a) - ToOrdinal(b), a.second - b.second,
              a.microsecond - b.microsecond)

\* td * n
Times(td, n) == Normalise(td.days * n, td.seconds * n, td.microseconds * n)

\* a + td
Plus(a, td) ==
    LET t == Normalise(ToOrdinal(a) + td.days, a.second + td.seconds,
                       a.microsecond + td.microseconds)
    IN  FromOrdinal(t.days, t.seconds, t.microseconds)

\* a + relativedelta(years=years, months=months) * n
PlusRelative(a, years, months, n) ==
    LET tm == months * n
        ty == years * n + (tm \div 12)
        m0 == a.month + (tm % 12)
        y  == IF m0 > 12 THEN a.year + ty + 1 ELSE a.year + ty
        m  == IF m0 > 12 THEN m0 - 12 ELSE m0
        d  == IF a.day < DaysInMonth(y, m) THEN a.day ELSE DaysInMonth(y, m)
    IN  DT(y, m, d, a.second, a.microsecond)

\* int(np.ceil(a / b)) for a >= 0, b > 0
CeilDiv(a, b) == (a + b - 1) \div b

-----------------------------------------------------------------------------
(* dt_to_rfc3339 and the store's reading of the text *)

\* input.strftime("%Y-%m-%dT%H:%M:%SZ"): the text carries whole seconds only
dt_to_rfc3339(input) ==
    [Y |-> input.year, m |-> input.month, d |-> input.day,
     H |-> input.second \div SecondsPerHour,
     M |-> (input.second % SecondsPerHour) \div 60,
     S |-> input.second % 60]

\* the instant an RFC3339 text names
FromRfc3339(text) ==
    DT(text.Y, text.m, text.d, text.H * SecondsPerHour + text.M * 60 + text.S, 0)

\* dt.datetime.strptime(s, '%m/%d/%y %H:%M:%S'), s given by its six numbers
Strptime(s) ==
    DT(IF s.yy < 69 THEN 2000 + s.yy ELSE 1900 + s.yy, s.mm, s.dd,
       s.HH * SecondsPerHour + s.MM * 60 + s.SS, 0)

-----------------------------------------------------------------------------
(* data_query: time_dict *)

Splits == {"none", "hour", "day", "week", "month", "year"}

\* time_dict[time_split]['Difference']
Difference(start_date, end_date, time_split) ==
    LET delta == Minus(end_date, start_date)
    IN  CASE time_split = "hour" ->
                delta.days * 24 + (delta.seconds \div SecondsPerHour)
          [] time_split = "day" -> delta.days
          [] time_split = "week" -> CeilDiv(delta.days, 7)
          [] time_split = "month" ->
                (end_date.year - start_date.year) * 12
                    + (end_date.month - start_date.month)
          [] time_split = "year" -> end_date.year - start_date.year
          [] time_split = "none" -> 1

\* start_date + time_dict[time_split]['Timedelta'] * n
Offset(start_date, end_date, time_split, n) ==
    LET delta == Minus(end_date, start_date)
    IN  CASE time_split = "hour" -> Plus(start_date, Times(TD(0, SecondsPerHour, 0), n))
          [] time_split = "day" -> Plus(start_date, Times(TD(1, 0, 0), n))
          [] time_split = "week" -> Plus(start_date, Times(TD(7, 0, 0), n))
          [] time_split = "month" -> PlusRelative(start_date, 0, 1, n)
          [] time_split = "year" -> PlusRelative(start_date, 1, 0, n)
          [] time_split = "none" ->
                Plus(start_date,
                     Times(Normalise(0, delta.days * SecondsPerDay + delta.seconds, 0), n))

-----------------------------------------------------------------------------
(* CustomFluxQuery: every element of _query_list is a stage                 *)
(*   [kind, args, brackets, quotes]                                         *)
(* args are the values interpolated into the text, brackets the bracket     *)
(* characters of the text in order, quotes the number of double quotes.     *)

\* double quotes inside an identifier
Quotes(id) == IF id = "a\"b" THEN 1 ELSE 0

RECURSIVE SumQuotes(_)
SumQuotes(ids) == IF ids = <<>> THEN 0 ELSE Quotes(Head(ids)) + SumQuotes(Tail(ids))

RECURSIVE Repeat(_, _)
Repeat(seq, n) == IF n <= 0 THEN <<>> ELSE seq \o Repeat(seq, n - 1)

Stage(kind, stage_args, brackets, quotes) ==
    [kind |-> kind, args |-> stage_args, brackets |-> brackets, quotes |-> quotes]

\* '", "'.join(names) between '["' and '"]'
JoinedQuotes(names) ==
    IF names = <<>> THEN 2 ELSE 2 * Len(names) + SumQuotes(names)

\* __init__
NewQuery(start, end, bucket, measurement) ==
    [_query_list |->
        << Stage("import", <<>>, <<>>, 2),
           Stage("from", <<bucket>>, <<"(", ")">>, 2 + Quotes(bucket)),
           Stage("range", <<dt_to_rfc3339(start), dt_to_rfc3339(end)>>, <<"(", ")">>, 0),
           Stage("measurement", <<measurement>>, <<"(", "(", ")", ")">>,
                 2 + Quotes(measurement)) >>,
     _start |-> start,
     _end |-> end]

Append_(query, stage) ==
    [query EXCEPT !._query_list = Append(query._query_list, stage)]

\* add_field: fields joined by '" or r["_field"] == "'
add_field(query, fields) ==
    LET joins == IF fields = <<>> THEN 0 ELSE Len(fields) - 1
    IN  Append_(query,
            Stage("field", fields,
                  <<"(", "(", ")", "[", "]">> \o Repeat(<<"[", "]">>, joins) \o <<")">>,
                  4 + 4 * joins + SumQuotes(fields)))

add_filter(query, key, value) ==
    Append_(query,
        Stage("filter", <<key, value>>, <<"(", "(", ")", "[", "]", ")">>,
              4 + Quotes(key) + Quotes(value)))

add_specific_filter(query, key, value, col) ==
    Append_(query,
        Stage("specific_filter", <<key, value, col>>,
              <<"(", "(", ")", "(", "{", "[", "]", "[", "]", "(", ")", "}", ")", ")">>,
              10 + 2 * Quotes(col) + Quotes(key) + Quotes(value)))

RECURSIVE add_filter_range(_, _)
add_filter_range(query, filter_fields) ==
    IF filter_fields = <<>> THEN query
    ELSE LET filter_field == Head(filter_fields)
             min_op == IF filter_field.MinEqual THEN ">=" ELSE ">"
             max_op == IF filter_field.MaxEqual THEN "<=" ELSE "<"
         IN  add_filter_range(
                Append_(query,
                    Stage("filter_range",
                          <<filter_field.Field, min_op, filter_field.Min,
                            max_op, filter_field.Max>>,
                          <<"(", "(", ")", "[", "]", "[", "]", ")">>,
                          4 + 2 * Quotes(filter_field.Field))),
                Tail(filter_fields))

add_groups(query, groups) ==
    Append_(query,
        Stage("group", groups, <<"(", "[", "]", ")">>, JoinedQuotes(groups)))

add_pivot(query, groups) ==
    Append_(query,
        Stage("pivot", groups, <<"(", "[", "]", "[", "]", ")">>,
              4 + JoinedQuotes(groups)))

add_window(query, range, function, time_starting) ==
    Append_(query,
        Stage("window",
              <<range, function, "_value",
                IF time_starting THEN "_start" ELSE "_stop", "true">>,
              <<"(", ")">>, 6))

\* scale_conf.get(key, default), then str -> strptime, datetime -> dt_to_rfc3339
ScalingBound(given, default) ==
    IF given = <<>> THEN dt_to_rfc3339(default)
    ELSE IF given[1].type = "str" THEN dt_to_rfc3339(Strptime(given[1].v))
    ELSE dt_to_rfc3339(given[1].v)

add_scaling(query, scale_conf) ==
    LET name == scale_conf.Field
        start == ScalingBound(scale_conf.Start, query._start)
        end == ScalingBound(scale_conf.End, query._end)
        slope == IF scale_conf.Slope = <<>> THEN 1 ELSE scale_conf.Slope[1]
        offset == IF scale_conf.Offset = <<>> THEN 0 ELSE scale_conf.Offset[1]
    IN  Append_(query,
            Stage("scaling", <<name, ">=", start, "<=", end, slope, offset>>,
                  <<"(", "(", ")", "(", "{", "[", "]", "[", "]",
                    "(", "[", "]", "(", ")", "[", "]", "}", ")", ")">>,
                  10 + 3 * Quotes(name)))

\* "\n".join(self._query_list): the text, one stage a line
return_query(query) == query._query_list

-----------------------------------------------------------------------------
(* The store behind self._query_api: one field, StoreField, with a point at *)
(* each time of StoreTimes where store is not 0.  Tags are not modelled:    *)
(* equality filters on tags keep every row, and the window stage hands the  *)
(* rows on as they are.                                                     *)

StoreField == "x"

StoreTimes ==
    << DT(2023, 1, 15, 6 * SecondsPerHour, 0),
       DT(2023, 1, 16, 0, 0) >>

\* the values a point takes
Values == {1, 2}

RECURSIVE Balanced(_, _)
Balanced(brackets, open) ==
    IF brackets = <<>> THEN open = <<>>
    ELSE LET b == Head(brackets)
         IN  IF b \in {"(", "[", "{"}
             THEN Balanced(Tail(brackets), <<b>> \o open)
             ELSE /\ open # <<>>
                  /\ <<Head(open), b>> \in {<<"(", ")">>, <<"[", "]">>, <<"{", "}">>}
                  /\ Balanced(Tail(brackets), Tail(open))

\* the store parses the text: brackets match and every string literal is closed
WellFormed(text) ==
    \A i \in 1..Len(text) :
        Balanced(text[i].brackets, <<>>) /\ text[i].quotes % 2 = 0

StagesOf(text, kind) == SelectSeq(text, LAMBDA stage : stage.kind = kind)

CompareTime(a, op, b) ==
    CASE op = ">=" -> NotAfter(b, a)
      [] op = ">" -> Before(b, a)
      [] op = "<=" -> NotAfter(a, b)
      [] op = "<" -> Before(a, b)

CompareValue(a, op, b) ==
    CASE op = ">=" -> a >= b
      [] op = ">" -> a > b
      [] op = "<=" -> a <= b
      [] op = "<" -> a < b

\* range(start:, stop:) keeps start <= _time < stop
RECURSIVE InRange(_, _, _, _)
InRange(st, start, stop, i) ==
    IF i > Len(StoreTimes) THEN <<>>
    ELSE (IF st[i] # 0 /\ NotAfter(start, StoreTimes[i]) /\ Before(StoreTimes[i], stop)
          THEN << <<StoreTimes[i], st[i]>> >> ELSE <<>>)
         \o InRange(st, start, stop, i + 1)

\* one filter_range stage on the rows
KeepsRow(stage, row) ==
    /\ stage.args[1] = StoreField
    /\ CompareValue(row[2], stage.args[2], stage.args[3])
    /\ CompareValue(row[2], stage.args[4], stage.args[5])

\* one scaling stage on a row: map(fn: (r) => ({ r with name: if ... then ... else ... }))
Scaled(stage, row) ==
    IF /\ stage.args[1] = StoreField
       /\ CompareTime(row[1], stage.args[2], FromRfc3339(stage.args[3]))
       /\ CompareTime(row[1], stage.args[4], FromRfc3339(stage.args[5]))
    THEN <<row[1], row[2] * stage.args[6] + stage.args[7]>>
    ELSE row

RECURSIVE Pipeline(_, _)
Pipeline(stages, rows) ==
    IF stages = <<>> THEN rows
    ELSE LET stage == Head(stages)
             next == CASE stage.kind = "field" ->
                            IF \E i \in 1..Len(stage.args) : stage.args[i] = StoreField
                            THEN rows ELSE <<>>
                      [] stage.kind = "filter_range" ->
                            SelectSeq(rows, LAMBDA row : KeepsRow(stage, row))
                      [] stage.kind = "scaling" ->
                            [i \in 1..Len(rows) |-> Scaled(stage, rows[i])]
                      [] OTHER -> rows
         IN  Pipeline(Tail(stages), next)

\* self._query_api.query_data_frame(query=text): [raised, rows]
query_data_frame(text, st, transport_fails) ==
    IF transport_fails \/ ~WellFormed(text)
    THEN [raised |-> TRUE, rows |-> <<>>]
    ELSE LET range == StagesOf(text, "range")[1]
         IN  [raised |-> FALSE,
              rows |-> Pipeline(text,
                          InRange(st, FromRfc3339(range.args[1]),
                                  FromRfc3339(range.args[2]), 1))]

-----------------------------------------------------------------------------
(* InfluxQuery.data_query.  multiindex only renames the columns of a chunk   *)
(* and is left out, as is custom_data_query, which no request here uses.    *)

NoArgs == [time_split |-> "unset"]

\* isinstance(v, str): v = [v]
AsList(given) == IF given.type = "str" THEN <<given.v>> ELSE given.v

RECURSIVE AddFilters(_, _)
AddFilters(query, bool_filters) ==
    IF bool_filters = <<>> THEN query
    ELSE LET item == Head(bool_filters)
         IN  AddFilters(IF item.isdict THEN query
                        ELSE add_filter(query, item.key, item.value),
                        Tail(bool_filters))

RECURSIVE AddSpecificFilters(_, _)
AddSpecificFilters(query, bool_filters) ==
    IF bool_filters = <<>> THEN query
    ELSE LET item == Head(bool_filters)
         IN  AddSpecificFilters(
                IF item.isdict
                THEN add_specific_filter(query, item.key, item.value, item.col)
                ELSE query,
                Tail(bool_filters))

RECURSIVE AddScaling(_, _)
AddScaling(query, scaling) ==
    IF scaling = <<>> THEN query
    ELSE AddScaling(add_scaling(query, Head(scaling)), Tail(scaling))

\* BuildQuery with the window stage added before the scaling stages
BuildQueryWindowBeforeScaling(r, start_t, end_t) ==
    LET fields == AsList(r.fields)
        groups == AsList(r.groups)
        q0 == NewQuery(start_t, end_t, r.bucket, r.measurement)
        q1 == add_field(q0, fields)
        q2 == add_groups(q1, groups \o <<"_field">>)
        q3 == AddFilters(q2, r.bool_filters)
        q4 == add_pivot(q3, groups \o <<"_field">>)
        q5 == AddSpecificFilters(q4, r.bool_filters)
        q6 == IF r.range_filters # <<>> THEN add_filter_range(q5, r.range_filters) ELSE q5
        q7 == add_window(q6, r.win_range, r.win_func, r.hour_beginning)
    IN  AddScaling(q7, r.scaling)

\* the query of one sub-window
BuildQuery(r, start_t, end_t) ==
    LET fields == AsList(r.fields)
        groups == AsList(r.groups)
        q0 == NewQuery(start_t, end_t, r.bucket, r.measurement)
        q1 == add_field(q0, fields)
        q2 == add_groups(q1, groups \o <<"_field">>)
        q3 == AddFilters(q2, r.bool_filters)
        q4 == add_pivot(q3, groups \o <<"_field">>)
        q5 == AddSpecificFilters(q4, r.bool_filters)
        q6 == IF r.range_filters # <<>> THEN add_filter_range(q5, r.range_filters) ELSE q5
        q7 == AddScaling(q6, r.scaling)
    IN  add_window(q7, r.win_range, r.win_func, r.hour_beginning)

\* self._measurements[~self._measurements.index.duplicated(keep='first')]
RECURSIVE DropDuplicates(_, _)
DropDuplicates(rows, seen) ==
    IF rows = <<>> THEN <<>>
    ELSE IF Head(rows)[1] \in seen THEN DropDuplicates(Tail(rows), seen)
         ELSE <<Head(rows)>> \o DropDuplicates(Tail(rows), seen \cup {Head(rows)[1]})

\* Loop leaving the loop at the first chunk without rows
RECURSIVE LoopStopsAtEmptyChunk(_, _, _, _, _)
LoopStopsAtEmptyChunk(r, st, fail, t_split, acc) ==
    IF t_split >= Difference(r.start_date, r.end_date, r.time_split) THEN acc
    ELSE LET start_t == Offset(r.start_date, r.end_date, r.time_split, t_split)
             end_t == Offset(r.start_date, r.end_date, r.time_split, t_split + 1)
             text == return_query(BuildQuery(r, start_t, end_t))
             query_return == query_data_frame(text, st, fail = t_split)
             call == [t_split |-> t_split, start_t |-> start_t, end_t |-> end_t,
                      text |-> text, empty |-> query_return.rows = <<>>,
                      raised |-> query_return.raised]
         IN  IF query_return.raised
             THEN [acc EXCEPT !.calls = Append(acc.calls, call), !.raised = TRUE]
             ELSE IF query_return.rows = <<>>
             THEN [acc EXCEPT !.calls = Append(acc.calls, call)]
             ELSE LoopStopsAtEmptyChunk(r, st, fail, t_split + 1,
                       [m |-> acc.m \o query_return.rows,
                        calls |-> Append(acc.calls, call),
                        rebound |-> TRUE,
                        raised |-> FALSE])

\* Loop without the test of line 217: the columns 'result', 'table', '_start'
\* and '_stop' are dropped from every chunk, and a chunk without rows has none
\* of them, so the drop raises
RECURSIVE LoopWithoutEmptyTest(_, _, _, _, _)
LoopWithoutEmptyTest(r, st, fail, t_split, acc) ==
    IF t_split >= Difference(r.start_date, r.end_date, r.time_split) THEN acc
    ELSE LET start_t == Offset(r.start_date, r.end_date, r.time_split, t_split)
             end_t == Offset(r.start_date, r.end_date, r.time_split, t_split + 1)
             text == return_query(BuildQuery(r, start_t, end_t))
             query_return == query_data_frame(text, st, fail = t_split)
             call == [t_split |-> t_split, start_t |-> start_t, end_t |-> end_t,
                      text |-> text, empty |-> query_return.rows = <<>>,
                      raised |-> query_return.raised]
         IN  IF query_return.raised \/ query_return.rows = <<>>
             THEN [acc EXCEPT !.calls = Append(acc.calls, call), !.raised = TRUE]
             ELSE LoopWithoutEmptyTest(r, st, fail, t_split + 1,
                       [m |-> acc.m \o query_return.rows,
                        calls |-> Append(acc.calls, call),
                        rebound |-> TRUE,
                        raised |-> FALSE])

\* for t_split in range(diff): acc is [m, calls, rebound, raised]; fail is the
\* sub-window on which the transport fails (none when fail = diff)
RECURSIVE Loop(_, _, _, _, _)
Loop(r, st, fail, t_split, acc) ==
    IF t_split >= Difference(r.start_date, r.end_date, r.time_split) THEN acc
    ELSE LET start_t == Offset(r.start_date, r.end_date, r.time_split, t_split)
             end_t == Offset(r.start_date, r.end_date, r.time_split, t_split + 1)
             text == return_query(BuildQuery(r, start_t, end_t))
             query_return == query_data_frame(text, st, fail = t_split)
             call == [t_split |-> t_split, start_t |-> start_t, end_t |-> end_t,
                      text |-> text, empty |-> query_return.rows = <<>>,
                      raised |-> query_return.raised]
         IN  IF query_return.raised
             THEN [acc EXCEPT !.calls = Append(acc.calls, call), !.raised = TRUE]
             ELSE Loop(r, st, fail, t_split + 1,
                       [m |-> IF query_return.rows # <<>>
                              THEN acc.m \o query_return.rows ELSE acc.m,
                        calls |-> Append(acc.calls, call),
                        rebound |-> acc.rebound \/ query_return.rows # <<>>,
                        raised |-> FALSE])

data_query(r, fail) ==
    /\ LET done == Loop(r, store, fail, 0,
                        [m |-> measurements, calls |-> <<>>,
                         rebound |-> FALSE, raised |-> FALSE])
       IN  /\ measurements' = IF done.raised THEN done.m ELSE DropDuplicates(done.m, {})
           /\ aliased' = (aliased /\ done.raised /\ ~done.rebound)
           /\ calls' = done.calls
           /\ outcome' = IF done.raised THEN "raised" ELSE "ok"
           /\ pure' = (pure /\ ~done.raised)
           /\ log' = IF pure /\ ~done.raised
                     THEN Append(log, [start_date |-> r.start_date,
                                       end_date |-> r.end_date,
                                       time_split |-> r.time_split])
                     ELSE <<>>
    /\ before' = measurements
    /\ args' = r
    /\ ncalls' = ncalls + 1
    /\ UNCHANGED store

\* Python's None: a value that is no table (a table's rows are pairs)
None == << <<>> >>

\* what return_measurements returns
Returned == IF measurements # None THEN measurements ELSE None

\* return_measurements: the caller is handed self._measurements itself
return_measurements ==
    /\ aliased' = TRUE
    /\ UNCHANGED <<store, measurements, args, calls, outcome, before, log, pure, ncalls>>

\* the caller changes the table it was handed, in place: one value, or one row dropped
CallerSets(i, v) ==
    /\ aliased
    /\ i \in 1..Len(measurements)
    /\ measurements[i][2] # v
    /\ measurements' = [measurements EXCEPT ![i] = <<measurements[i][1], v>>]
    /\ pure' = FALSE
    /\ log' = <<>>
    /\ UNCHANGED <<store, aliased, args, calls, outcome, before, ncalls>>

\* clear_measurements
clear_measurements ==
    /\ measurements' = <<>>
    /\ aliased' = FALSE
    /\ pure' = TRUE
    /\ log' = <<>>
    /\ UNCHANGED <<store, args, calls, outcome, before, ncalls>>

\* InfluxWriter.write_container_list: a point is written to the store
write_container_list(i, v) ==
    /\ store[i] # v
    /\ store' = [store EXCEPT ![i] = v]
    /\ pure' = (pure /\ log = <<>>)
    /\ log' = <<>>
    /\ UNCHANGED <<measurements, aliased, args, calls, outcome, before, ncalls>>

-----------------------------------------------------------------------------
(* Requests *)

Request(start_date, end_date, time_split) ==
    [bucket |-> "b", start_date |-> start_date, end_date |-> end_date,
     measurement |-> "m", fields |-> [type |-> "list", v |-> <<StoreField>>],
     groups |-> [type |-> "list", v |-> <<"site">>],
     win_range |-> "1h", win_func |-> "mean", bool_filters |-> <<>>,
     range_filters |-> <<>>, hour_beginning |-> FALSE, scaling |-> <<>>,
     time_split |-> time_split]

\* instants around the store's points: whole days
DayTimes ==
    { DT(2023, 1, 15, 0, 0), DT(2023, 1, 16, 0, 0), DT(2023, 1, 17, 0, 0) }

\* start < end, and no more sub-windows than the model follows
Valid(r) ==
    /\ Before(r.start_date, r.end_date)
    /\ Difference(r.start_date, r.end_date, r.time_split) <= MaxChunks

DayRequests ==
    { r \in { Request(a, b, sp) :
                a \in DayTimes, b \in DayTimes, sp \in {"none", "day"} } : Valid(r) }

\* instants that cross hours, days, weeks, months, a leap day and a year,
\* some off the unit's boundary and one with a fraction of a second
CalendarTimes ==
    { DT(2023, 1, 15, 0, 0), DT(2023, 1, 15, 0, 500000),
      DT(2023, 1, 15, 5400, 0), DT(2023, 1, 15, 3 * SecondsPerHour, 0),
      DT(2023, 1, 16, 0, 0), DT(2023, 1, 16, 12 * SecondsPerHour, 0),
      DT(2023, 1, 22, 0, 0), DT(2023, 1, 23, 0, 0), DT(2023, 1, 31, 0, 0),
      DT(2023, 2, 1, 0, 0), DT(2023, 4, 3, 0, 0), DT(2023, 12, 31, 0, 0),
      DT(2024, 1, 15, 0, 0), DT(2024, 2, 29, 0, 0), DT(2024, 3, 31, 0, 0) }

CalendarRequests ==
    { r \in { Request(a, b, sp) :
                a \in CalendarTimes, b \in CalendarTimes, sp \in Splits } : Valid(r) }

FieldChoices ==
    { [type |-> "str", v |-> StoreField], [type |-> "list", v |-> <<>>],
      [type |-> "list", v |-> <<StoreField, "y">>],
      [type |-> "list", v |-> <<"a\"b">>] }

Plain(key, value) == [isdict |-> FALSE, key |-> key, value |-> value, col |-> ""]
Targeted(key, value, col) == [isdict |-> TRUE, key |-> key, value |-> value, col |-> col]

FilterChoices ==
    { <<>>, <<Plain("site", "north")>>,
      <<Targeted("flag", "ok", "site_x"), Plain("site", "north")>>,
      <<Plain("a\"b", "north")>> }

RangeFilter(field, min, max, min_equal, max_equal) ==
    [Field |-> field, Min |-> min, Max |-> max,
     MinEqual |-> min_equal, MaxEqual |-> max_equal]

RangeFilterChoices ==
    { <<>>, <<RangeFilter(StoreField, 0, 10, TRUE, FALSE)>>,
      <<RangeFilter(StoreField, 10, 0, TRUE, TRUE)>> }

ScaleConf(field, start, end, slope, offset) ==
    [Field |-> field, Start |-> start, End |-> end, Slope |-> slope, Offset |-> offset]

ScalingChoices ==
    { <<>>, <<ScaleConf(StoreField, <<>>, <<>>, <<2>>, <<1>>)>>,
      <<ScaleConf(StoreField,
                  << [type |-> "str",
                      v |-> [mm |-> 1, dd |-> 15, yy |-> 23, HH |-> 0, MM |-> 0, SS |-> 0]] >>,
                  << [type |-> "datetime", v |-> DT(2023, 1, 16, 0, 0)] >>,
                  <<2>>, <<>>)>> }

ShapeRequests ==
    { [Request(DT(2023, 1, 15, 0, 0), DT(2023, 1, 17, 0, 0), sp) EXCEPT
          !.bucket = bucket, !.fields = fields, !.bool_filters = bool_filters,
          !.range_filters = range_filters, !.scaling = scaling,
          !.hour_beginning = hour_beginning] :
        sp \in {"none", "day"}, bucket \in {"b", "a\"b"}, fields \in FieldChoices,
        bool_filters \in FilterChoices, range_filters \in RangeFilterChoices,
        scaling \in ScalingChoices, hour_beginning \in BOOLEAN }

-----------------------------------------------------------------------------
(* Specifications *)

Fresh ==
    /\ measurements = <<>>
    /\ aliased = FALSE
    /\ args = NoArgs
    /\ calls = <<>>
    /\ outcome = "none"
    /\ before = <<>>
    /\ log = <<>>
    /\ pure = TRUE
    /\ ncalls = 0

\* an instance over a store with one point, queried over whole days, read,
\* cleared, and the store written to
Init == store = <<1, 0>> /\ Fresh

\* a data_query call: any of the requests, the transport failing on any of
\* its sub-windows or on none
DataQuery(requests) ==
    /\ ncalls < MaxCalls
    /\ \E r \in requests :
         \E fail \in 0..Difference(r.start_date, r.end_date, r.time_split) :
            data_query(r, fail)

Next ==
    \/ DataQuery(DayRequests)
    \/ return_measurements
    \/ \E i \in 1..Len(StoreTimes), v \in Values : CallerSets(i, v)
    \/ clear_measurements
    \/ \E i \in 1..Len(StoreTimes), v \in Values : write_container_list(i, v)

Spec == Init /\ [][Next]_vars

\* the first data_query of a fresh instance, over the calendar and over every
\* shape of request
InitQuery ==
    /\ store \in { <<1, 2>>, <<2, 0>> }
    /\ Fresh

NextQuery == ncalls = 0 /\ DataQuery(CalendarRequests \cup ShapeRequests)

SpecQuery == InitQuery /\ [][NextQuery]_vars

\* one instance used for data_query calls only, some of them failing, with
\* the store written to and the instance cleared in between
Fetch ==
    /\ ncalls < MaxFetches
    /\ \E r \in DayRequests :
         \E fail \in 0..Difference(r.start_date, r.end_date, r.time_split) :
            data_query(r, fail)

NextAccumulate ==
    \/ Fetch
    \/ clear_measurements
    \/ \E i \in 1..Len(StoreTimes), v \in Values : write_container_list(i, v)

SpecAccumulate == Init /\ [][NextAccumulate]_vars

-----------------------------------------------------------------------------
(* Properties *)

Completed == outcome = "ok"

\* the sub-windows the loop of the last call went through
Window(i) == <<calls[i].start_t, calls[i].end_t>>

Contiguous == \A i \in 1..(Len(calls) - 1) : calls[i].end_t = calls[i + 1].start_t

\* C1: for start < end and every split unit, the sub-windows data_query goes
\* through are ascending, contiguous and non-overlapping, the first begins at
\* start, the last ends at end, and none ends after end: they cover exactly
\* [start, end).
C1_WindowsPartitionRange ==
    Completed =>
        /\ calls # <<>>
        /\ calls[1].start_t = args.start_date
        /\ calls[Len(calls)].end_t = args.end_date
        /\ Contiguous
        /\ \A i \in 1..Len(calls) :
              /\ Before(calls[i].start_t, calls[i].end_t)
              /\ NotAfter(calls[i].end_t, args.end_date)

FirstOfMonth(d, n) == PlusRelative(DT(d.year, d.month, 1, 0, 0), 0, 1, n)

\* calendar months that [start, end) touches
MonthsTouched(start, end) ==
    (end.year - start.year) * 12 + (end.month - start.month)
        + (IF end = DT(end.year, end.month, 1, 0, 0) THEN 0 ELSE 1)

\* the i-th (from 1) calendar-month slice of [start, end)
MonthSlice(start, end, i) ==
    << IF i = 1 THEN start ELSE FirstOfMonth(start, i - 1),
       IF i = MonthsTouched(start, end) THEN end ELSE FirstOfMonth(start, i) >>

\* C2: with split unit month there is exactly one sub-window per calendar
\* month that [start, end) touches, the months at both ends cut to the range;
\* 2023-01-15 to 2023-04-03 gives [01-15,02-01), [02-01,03-01), [03-01,04-01),
\* [04-01,04-03).
C2_MonthSplitOnePerCalendarMonth ==
    (Completed /\ args.time_split = "month") =>
        /\ Len(calls) = MonthsTouched(args.start_date, args.end_date)
        /\ \A i \in 1..Len(calls) :
              Window(i) = MonthSlice(args.start_date, args.end_date, i)

\* of the rows the table held when the last call began, the first with each
\* timestamp is still in the table
FirstOccurrenceKept ==
    \A i \in 1..Len(before) :
        (\A j \in 1..(i - 1) : before[j][1] # before[i][1]) =>
            \E k \in 1..Len(measurements) : measurements[k] = before[i]

\* C3: after a data_query call that returned normally the accumulated table
\* has strictly increasing timestamps (so no timestamp twice) and the row that
\* survives for a timestamp is the first one delivered, whatever calls came
\* before it, a call over an earlier range included.
C3_TableStrictlyIncreasing ==
    Completed =>
        /\ \A i \in 1..(Len(measurements) - 1) :
              Before(measurements[i][1], measurements[i + 1][1])
        /\ (~aliased /\ measurements # <<>>) => FirstOccurrenceKept

\* C4: when the executor raises on a sub-window, no later sub-window is
\* queried and the chunks the call had accumulated are discarded: the
\* accumulator is what it was when the call began.
C4_FailedCallRestoresAccumulator ==
    outcome = "raised" => measurements = before

\* the table a single data_query over [a, d) leaves on a fresh instance
FreshQuery(a, d, time_split) ==
    LET r == Request(a, d, time_split)
    IN  DropDuplicates(
            Loop(r, store, Difference(a, d, time_split), 0,
                 [m |-> <<>>, calls |-> <<>>, rebound |-> FALSE, raised |-> FALSE]).m,
            {})

\* [a, c) and [b, d) with a <= b < c <= d
Overlapping(x, y) ==
    /\ NotAfter(x.start_date, y.start_date)
    /\ Before(y.start_date, x.end_date)
    /\ NotAfter(x.end_date, y.end_date)

\* C5: over an unchanged store, two data_query calls on one instance with
\* overlapping ranges [a,c) and [b,d), in either order, leave the table a
\* single data_query over [a,d) leaves on a fresh instance: same rows, same
\* order.
C5_OverlappingFetchesEqualUnion ==
    (/\ pure
     /\ Len(log) = 2
     /\ log[1].time_split = log[2].time_split
     /\ (Overlapping(log[1], log[2]) \/ Overlapping(log[2], log[1]))) =>
        LET first == IF Overlapping(log[1], log[2]) THEN log[1] ELSE log[2]
            second == IF Overlapping(log[1], log[2]) THEN log[2] ELSE log[1]
        IN  measurements =
                FreshQuery(first.start_date, second.end_date, first.time_split)

\* the place of a stage in the order the specification gives
SpecRank(kind) ==
    CASE kind \in {"import", "from", "range", "measurement"} -> 1
      [] kind = "field" -> 2
      [] kind = "group" -> 3
      [] kind = "filter" -> 4
      [] kind = "specific_filter" -> 5
      [] kind = "filter_range" -> 6
      [] kind = "window" -> 7
      [] kind = "pivot" -> 8
      [] kind = "scaling" -> 9

\* the place of a stage in the order source, field selection, group, plain
\* filters, pivot, targeted filters, range filters, scaling, window
CodeRank(kind) ==
    CASE kind \in {"import", "from", "range", "measurement"} -> 1
      [] kind = "field" -> 2
      [] kind = "group" -> 3
      [] kind = "filter" -> 4
      [] kind = "pivot" -> 5
      [] kind = "specific_filter" -> 6
      [] kind = "filter_range" -> 7
      [] kind = "scaling" -> 8
      [] kind = "window" -> 9

InOrder(text, Rank(_)) ==
    \A i \in 1..(Len(text) - 1) : Rank(text[i].kind) <= Rank(text[i + 1].kind)

\* the first four lines are the import and the source: bucket, range, measurement
SourceFirst(text) ==
    /\ Len(text) >= 4
    /\ <<text[1].kind, text[2].kind, text[3].kind, text[4].kind>>
            = <<"import", "from", "range", "measurement">>

\* C6 as stated: every query text lists its stages in the order source, field
\* selection, group, plain filters, targeted filters, range filters, window,
\* pivot, scaling.
C6_StagesInSpecOrder ==
    \A i \in 1..Len(calls) :
        SourceFirst(calls[i].text) /\ InOrder(calls[i].text, SpecRank)

\* C6 as amended: every query text lists its stages in the order source, field
\* selection, group, plain filters, pivot, targeted filters, range filters,
\* scaling, window.
C6_StagesInCodeOrder ==
    \A i \in 1..Len(calls) :
        SourceFirst(calls[i].text) /\ InOrder(calls[i].text, CodeRank)

\* a query text with a stage of every kind was rendered
C6_Witness ==
    \E i \in 1..Len(calls) :
        \A kind \in {"field", "group", "filter", "pivot", "specific_filter",
                     "filter_range", "scaling", "window"} :
            StagesOf(calls[i].text, kind) # <<>>

HasDelimiter(id) == Quotes(id) > 0

\* an empty field list, a range filter with Min > Max, or a bucket, field or
\* tag name holding the double quote
Malformed(r) ==
    \/ AsList(r.fields) = <<>>
    \/ \E i \in 1..Len(r.range_filters) : r.range_filters[i].Min > r.range_filters[i].Max
    \/ HasDelimiter(r.bucket)
    \/ \E i \in 1..Len(AsList(r.fields)) : HasDelimiter(AsList(r.fields)[i])
    \/ \E i \in 1..Len(r.bool_filters) : HasDelimiter(r.bool_filters[i].key)

\* C7: a malformed request is rejected before any query is issued: no
\* executor call, the call fails, the accumulator is unchanged.
C7_MalformedRequestIssuesNoQuery ==
    (outcome # "none" /\ Malformed(args)) =>
        /\ calls = <<>>
        /\ outcome = "raised"
        /\ measurements = before

WholeSeconds(d) == [d EXCEPT !.microsecond = 0]

RangeOf(text) == StagesOf(text, "range")[1].args

\* one invocation per sub-window, in ascending order from the first, none
\* twice and none skipped; all of them when the call returns normally
OncePerSubWindow ==
    /\ \A i \in 1..Len(calls) : calls[i].t_split = i - 1
    /\ calls # <<>> => calls[1].start_t = args.start_date
    /\ Contiguous
    /\ \A i \in 1..Len(calls) : NotAfter(calls[i].start_t, calls[i].end_t)
    /\ Completed =>
          Len(calls) = Difference(args.start_date, args.end_date, args.time_split)
    /\ outcome = "raised" => calls # <<>>

\* C8 as stated: the executor is invoked once per sub-window, in ascending
\* order, whether or not earlier chunks were empty, with a query whose range
\* bounds are the sub-window's start and end.
C8_OncePerSubWindowExactBounds ==
    outcome # "none" =>
        /\ OncePerSubWindow
        /\ \A i \in 1..Len(calls) :
              /\ FromRfc3339(RangeOf(calls[i].text)[1]) = calls[i].start_t
              /\ FromRfc3339(RangeOf(calls[i].text)[2]) = calls[i].end_t

\* C8 as amended: the same, the range bounds being the sub-window's start and
\* end cut to whole seconds.
C8_OncePerSubWindowWholeSeconds ==
    outcome # "none" =>
        /\ OncePerSubWindow
        /\ \A i \in 1..Len(calls) :
              /\ FromRfc3339(RangeOf(calls[i].text)[1]) = WholeSeconds(calls[i].start_t)
              /\ FromRfc3339(RangeOf(calls[i].text)[2]) = WholeSeconds(calls[i].end_t)

\* a call went through several sub-windows, one with rows and one without, from
\* a start that is not on a whole second
C8_Witness ==
    /\ Completed
    /\ Len(calls) >= 2
    /\ \E i, j \in 1..Len(calls) : calls[i].empty /\ ~calls[j].empty
    /\ args.start_date.microsecond # 0

\* C9: return_measurements hands out a copy: what the caller does to the table
\* it was handed leaves the instance's table as it was.
C9_ReturnedTableIsACopy ==
    [][(\E i \in 1..Len(StoreTimes), v \in Values : CallerSets(i, v))
            => measurements' = measurements]_vars

\* what the j-th scaling entry of the request asks for
EntryBound(given, default) ==
    IF given = <<>> THEN default
    ELSE IF given[1].type = "str" THEN Strptime(given[1].v) ELSE given[1].v

HalfOpenScaled(r, j, row) ==
    LET conf == r.scaling[j]
        from == EntryBound(conf.Start, r.start_date)
        to == EntryBound(conf.End, r.end_date)
        slope == IF conf.Slope = <<>> THEN 1 ELSE conf.Slope[1]
        offset == IF conf.Offset = <<>> THEN 0 ELSE conf.Offset[1]
    IN  IF NotAfter(from, row[1]) /\ Before(row[1], to)
        THEN <<row[1], row[2] * slope + offset>>
        ELSE row

\* C10: the scaling stage of an entry is a stage the store runs, and it turns
\* a row's value into value * slope + offset exactly when entry start <= t <
\* entry end, the row at the entry end left as it is; without a start or end
\* in the entry the bounds are the request's own start and end.
C10_ScalingHalfOpenWindow ==
    \A i \in 1..Len(calls) :
        LET stages == StagesOf(calls[i].text, "scaling")
        IN  \A j \in 1..Len(stages) :
                /\ Balanced(stages[j].brackets, <<>>)
                /\ \A t \in 1..Len(StoreTimes), v \in Values :
                      Scaled(stages[j], <<StoreTimes[t], v>>)
                          = HalfOpenScaled(args, j, <<StoreTimes[t], v>>)

\* in the last call the executor returned on every sub-window it was asked
\* for, each time with zero rows
EveryChunkEmpty ==
    /\ args # NoArgs
    /\ \A i \in 1..Len(calls) : ~calls[i].raised /\ calls[i].empty

\* C11: on a fresh or cleared instance (the accumulator is empty when the call
\* begins), a data_query in which every sub-window returns zero rows completes
\* normally, and return_measurements then returns an empty table, not None:
\* the empty chunks are skipped and the accumulator is what it was.
C11_AllEmptyFetchLeavesEmptyTable ==
    (before = <<>> /\ EveryChunkEmpty) =>
        /\ Completed
        /\ Returned # None
        /\ Returned = <<>>
        /\ measurements = before

\* an instance cleared after an earlier call and then queried over a
\* sub-window without rows
C11_Witness ==
    /\ ncalls = MaxCalls
    /\ before = <<>>
    /\ pure /\ Len(log) = 1
    /\ calls # <<>>
    /\ EveryChunkEmpty
    /\ Completed

\* every row of the table is a row of the table after the step
RowsKept ==
    \A i \in 1..Len(measurements) :
        \E k \in 1..Len(measurements') : measurements'[k] = measurements[i]

\* C12: accumulation is monotone until clear: a data_query call, whatever
\* calls came before it without a clear_measurements in between, removes no
\* row the accumulator held and changes none, even if the store now has
\* another value for its timestamp; only clear_measurements empties an
\* accumulator that holds rows.
C12_CallsKeepStoredRows ==
    [][/\ ncalls' # ncalls => RowsKept
       /\ (measurements # <<>> /\ measurements' = <<>>) => clear_measurements]_vars

\* what the code does keep: the first row stored for a timestamp is still the
\* first row of that timestamp after a data_query call
FirstRowOfTimestampKept ==
    [][ncalls' # ncalls =>
         \A i \in 1..Len(measurements) :
            (\A j \in 1..(i - 1) : measurements[j][1] # measurements[i][1]) =>
                \E k \in 1..Len(measurements') :
                    /\ measurements'[k] = measurements[i]
                    /\ \A j \in 1..(k - 1) : measurements'[j][1] # measurements[i][1]]_vars

====
